---- MODULE Spec2Model ----
(***************************************************************************)
(* A model of the lint service of mongmung_csslint_server:                 *)
(*   - createStylelintConfig (config/stylelint.ts), on a heap of objects   *)
(*     so that copying, aliasing and mutation are visible;                  *)
(*   - lintCode (services/lintService.ts), an async function with one      *)
(*     suspension point: the call of the external engine.                  *)
(* JavaScript values are modelled as strings; "undefined" stands for the   *)
(* JavaScript value undefined, "null" for null.                             *)
(***************************************************************************)
EXTENDS Integers, Sequences, FiniteSets, TLC

-----------------------------------------------------------------------------
(* Bounds of the model.                                                    *)

\* createStylelintConfig is called at most MaxConfigs times in a behaviour.
MaxConfigs == 2
\* At most MaxWrites later writes to objects of returned configs.
MaxWrites == 1
\* Source texts are sequences of at most MaxCodeLen characters.
MaxCodeLen == 2
\* The engine reports at most MaxWarnings warnings for a file.
MaxWarnings == 2

-----------------------------------------------------------------------------
(* JavaScript objects as finite mappings.                                  *)

Undefined == "undefined"
Null == "null"

\* obj[k]: a missing key reads as undefined.
Get(m, k) == IF k \in DOMAIN m THEN m[k] ELSE Undefined
\* obj[k] = v
Set(m, k, v) == [x \in (DOMAIN m) \cup {k} |-> IF x = k THEN v ELSE m[x]]
\* delete obj[k]
Delete(m, k) == [x \in (DOMAIN m) \ {k} |-> m[x]]
\* {} : the mapping with no key
EmptyMap == [x \in {} |-> Undefined]

-----------------------------------------------------------------------------
(* config/stylelint.ts                                                     *)

DEFAULT_EXTENDS ==
    << "stylelint-config-standard",
       "stylelint-config-recommended-scss",
       "stylelint-config-recommended-vue" >>

\* The plugin names in the other order.
DEFAULT_PLUGINS_Swapped == << "@stylistic/stylelint-plugin", "stylelint-order" >>

DEFAULT_PLUGINS == << "stylelint-order", "@stylistic/stylelint-plugin" >>

\* The parser map with the html entry given to css as well.
SYNTAX_PARSER_MAP_CssParser(syntax) ==
    CASE syntax = "css"  -> "postcss-html"
      [] syntax = "html" -> "postcss-html"
      [] OTHER           -> Undefined

SYNTAX_PARSER_MAP(syntax) ==
    CASE syntax = "css"  -> Undefined
      [] syntax = "html" -> "postcss-html"
      [] OTHER           -> Undefined   \* a key the record does not have

LegacyKey == "color-hex-case"
StylisticKey == "@stylistic/color-hex-case"

\* The remap without the delete of the legacy key.
RemapLegacy_KeepLegacy(m) ==
    IF Get(m, LegacyKey) # Undefined
    THEN Set(m, StylisticKey, m[LegacyKey])
    ELSE m

\* Lines 54-58, applied to the object normalizedRules refers to: when the
\* legacy key reads as something other than undefined, its value is stored
\* under the @stylistic name and the legacy key is deleted.
RemapLegacy(m) ==
    IF Get(m, LegacyKey) # Undefined
    THEN Delete(Set(m, StylisticKey, m[LegacyKey]), LegacyKey)
    ELSE m

\* `if (customSyntax) config.customSyntax = customSyntax`: the field is set
\* only for a truthy parser name; an unset field reads as undefined.
CustomSyntaxField(syntax) ==
    IF SYNTAX_PARSER_MAP(syntax) \notin {Undefined, Null, ""}
    THEN SYNTAX_PARSER_MAP(syntax)
    ELSE Undefined

\* normalizedRules = rules: no copy, the caller's own object.
SpreadRulesTarget_Alias(src, fresh) == src

\* extends: DEFAULT_EXTENDS, plugins: DEFAULT_PLUGINS: the constants themselves.
SpreadListTarget_Alias(src, fresh) == src

\* The object `{ ...rules }` creates is a new one: of the caller's object
\* `src` and the next free address `fresh`, normalizedRules refers to fresh.
SpreadRulesTarget(src, fresh) == fresh

\* `[...DEFAULT_EXTENDS]`, `[...DEFAULT_PLUGINS]`: a new array.
SpreadListTarget(src, fresh) == fresh

\* The value createStylelintConfig returns, as contents (no identities).
createStylelintConfig(rules, syntax) ==
    [ extends      |-> DEFAULT_EXTENDS,
      fix          |-> TRUE,
      plugins      |-> DEFAULT_PLUGINS,
      rules        |-> RemapLegacy(rules),
      customSyntax |-> CustomSyntaxField(syntax) ]

-----------------------------------------------------------------------------
(* State.                                                                  *)

VARIABLES
    \* The heap createStylelintConfig works on.
    maps,       \* mapping objects by address: callers' rules, configs' rules
    lists,      \* array objects by address: the default lists, configs' lists
    arrs,       \* array-valued rule values by address (contents as a string)
    configs,    \* the configs returned so far: addresses and scalar fields
    calls,      \* per returned config: the call's arguments and what it saw
    writes,     \* how many later writes to returned configs there were
    \* lintCode, per request.
    pc,         \* "idle" | "awaiting" | "done"
    req,        \* the LintRequest
    options,    \* the LintOptions handed to the engine
    engineCalls,\* how often styleLint.lint was invoked
    response,   \* what the engine call produced
    raised,     \* the first validation error or ParseError raised
    outcome     \* how the promise lintCode returned was settled

heapVars == << maps, lists, arrs, configs, calls, writes >>
lintVars == << pc, req, options, engineCalls, response, raised, outcome >>
vars == << maps, lists, arrs, configs, calls, writes,
           pc, req, options, engineCalls, response, raised, outcome >>

-----------------------------------------------------------------------------
(* Inputs of createStylelintConfig: rules mappings.                        *)

\* The one array-valued rule value of the model, by address.
ArrAddrs == {"@array1"}

Keys == {LegacyKey, StylisticKey, "indentation"}

\* StylelintRuleValue (types/index.ts): null, a scalar or an array; never
\* undefined.  Each key draws from a small set of such values.
RuleValuesOf(k) ==
    CASE k = LegacyKey    -> {Null, "lower"}
      [] k = StylisticKey -> {"upper"}
      [] OTHER            -> ArrAddrs

RulesInputs ==
    { m \in UNION { [D -> {Null, "lower", "upper"} \cup ArrAddrs] : D \in SUBSET Keys } :
        \A k \in DOMAIN m : m[k] \in RuleValuesOf(k) }

\* The second caller's mapping: one with the legacy key and scalar values.
SecondRulesInputs ==
    { m \in RulesInputs : LegacyKey \in DOMAIN m /\ "indentation" \notin DOMAIN m }

Syntaxes == {"css", "html"}

-----------------------------------------------------------------------------
(* createStylelintConfig on the heap.                                      *)

\* Addresses of the module-level constants and of the two callers' objects.
ExtendsAddr == 1
PluginsAddr == 2
InputAddrs == {1, 2}

\* Store `content` at address tgt: a new object when tgt is the next free
\* address, an overwrite of an existing object otherwise.
Store(heap, tgt, content) ==
    IF tgt > Len(heap) THEN Append(heap, content)
    ELSE [heap EXCEPT ![tgt] = content]

\* What can be read through a mapping: its keys and their values, an
\* array-valued rule read through to the array's contents.
Deref(v) == IF v \in ArrAddrs THEN arrs[v] ELSE v
ViewMap(a) == [k \in DOMAIN maps[a] |-> Deref(maps[a][k])]
ViewConfig(c) ==
    [ extends      |-> lists[configs[c].extends],
      fix          |-> configs[c].fix,
      plugins      |-> lists[configs[c].plugins],
      rules        |-> ViewMap(configs[c].rules),
      customSyntax |-> configs[c].customSyntax ]

\* One call createStylelintConfig(rules, syntax), rules being the object at
\* address a.  Lines 53-72 of config/stylelint.ts.
CreateStylelintConfigCall(a, syntax) ==
    /\ Len(configs) < MaxConfigs
    /\ LET tgt    == SpreadRulesTarget(a, Len(maps) + 1)
           maps1  == Store(maps, tgt, RemapLegacy(maps[a]))
           etgt   == SpreadListTarget(ExtendsAddr, Len(lists) + 1)
           lists1 == Store(lists, etgt, lists[ExtendsAddr])
           ptgt   == SpreadListTarget(PluginsAddr, Len(lists1) + 1)
           lists2 == Store(lists1, ptgt, lists1[PluginsAddr])
           config == [ extends      |-> etgt,
                       fix          |-> TRUE,
                       plugins      |-> ptgt,
                       rules        |-> tgt,
                       customSyntax |-> CustomSyntaxField(syntax) ]
       IN /\ maps' = maps1
          /\ lists' = lists2
          /\ configs' = Append(configs, config)
          /\ calls' = Append(calls,
                 [ input  |-> a,
                   syntax |-> syntax,
                   before |-> maps[a],
                   after  |-> maps1[a],
                   ret    |-> [ extends      |-> lists2[etgt],
                                fix          |-> TRUE,
                                plugins      |-> lists2[ptgt],
                                rules        |-> maps1[tgt],
                                customSyntax |-> config.customSyntax ] ])
    /\ UNCHANGED << arrs, writes >>
    /\ UNCHANGED lintVars

\* A caller's later writes to a config it was given.
WriteRules(c, k) ==
    /\ writes < MaxWrites
    /\ maps' = [maps EXCEPT ![configs[c].rules] = Set(@, k, "written")]
    /\ writes' = writes + 1
    /\ UNCHANGED << lists, arrs, configs, calls >>
    /\ UNCHANGED lintVars

WriteExtends(c) ==
    /\ writes < MaxWrites
    /\ lists' = [lists EXCEPT ![configs[c].extends] = Append(@, "written")]
    /\ writes' = writes + 1
    /\ UNCHANGED << maps, arrs, configs, calls >>
    /\ UNCHANGED lintVars

WritePlugins(c) ==
    /\ writes < MaxWrites
    /\ lists' = [lists EXCEPT ![configs[c].plugins] = Append(@, "written")]
    /\ writes' = writes + 1
    /\ UNCHANGED << maps, arrs, configs, calls >>
    /\ UNCHANGED lintVars

\* A write into an array-valued rule of a config.  `{ ...rules }` copies the
\* mapping, not the values in it, so the array is the caller's own object.
\* This is a write to a rule value, not to the rules mapping.
WriteRuleArray(c, k) ==
    /\ Get(maps[configs[c].rules], k) \in ArrAddrs
    /\ arrs[maps[configs[c].rules][k]] # "[written]"
    /\ arrs' = [arrs EXCEPT ![maps[configs[c].rules][k]] = "[written]"]
    /\ UNCHANGED << maps, lists, configs, calls, writes >>
    /\ UNCHANGED lintVars

-----------------------------------------------------------------------------
(* Errors and messages (errors.ts, constants.ts).                          *)

\* The message constants, by the names lintService.ts uses for them; the
\* validation messages by the checks that raise them.
EMPTY_CODE == "VALIDATION_ERRORS.EMPTY_CODE"
UNSUPPORTED_SYNTAX == "VALIDATION_ERRORS.UNSUPPORTED_SYNTAX"
NO_RULES == "VALIDATION_ERRORS.NO_RULES"
UNSUPPORTED_OUTPUT_STYLE == "VALIDATION_ERRORS.UNSUPPORTED_OUTPUT_STYLE"
PARSE_ERROR == "VALIDATION_ERRORS.PARSE_ERROR"
LINT_ERROR == "VALIDATION_ERRORS.LINT_ERROR"
UNKNOWN_ERROR == "VALIDATION_ERRORS.UNKNOWN_ERROR"
SUCCESS == "MESSAGES.SUCCESS"

\* A thrown value: an Error object of some class with its message, or a
\* value that is no Error object (message then holds String(value)).
Thrown(isError, kind, message) ==
    [isError |-> isError, kind |-> kind, message |-> message]

NoError == Thrown(FALSE, "none", "")

ValidationKinds ==
    {"EmptyCode", "UnsupportedSyntax", "NoRules", "UnsupportedOutputStyle"}

\* `${prefix}: ${message}`
Prefixed(prefix, message) == prefix \o ": " \o message

-----------------------------------------------------------------------------
(* Requests.                                                               *)

Chars == {" ", "a"}
Whitespace == {" ", "\t", "\n"}

SeqsUpTo(S, n) == UNION { [1..k -> S] : k \in 0..n }

Codes == SeqsUpTo(Chars, MaxCodeLen)

\* String.prototype.trim
RECURSIVE TrimStart(_)
TrimStart(s) ==
    IF s # << >> /\ Head(s) \in Whitespace THEN TrimStart(Tail(s)) ELSE s

RECURSIVE TrimEnd(_)
TrimEnd(s) ==
    IF s # << >> /\ s[Len(s)] \in Whitespace
    THEN TrimEnd(SubSeq(s, 1, Len(s) - 1))
    ELSE s

Trim(s) == TrimEnd(TrimStart(s))

SyntaxInputs == {"css", "html", "invalid"}
OutputStyleInputs == {Undefined, "compact", "nested", "invalid"}

Requests ==
    { [ code   |-> c,
        syntax |-> s,
        config |-> [rules |-> m, outputStyle |-> o] ] :
        c \in Codes, s \in SyntaxInputs, m \in RulesInputs, o \in OutputStyleInputs }

-----------------------------------------------------------------------------
(* utils/validation.ts: each check yields the error it throws, or NoError. *)

validateCode(code) ==
    IF Trim(code) = << >> THEN Thrown(TRUE, "EmptyCode", EMPTY_CODE) ELSE NoError

validateSyntax(syntax) ==
    IF syntax \notin {"css", "html"}
    THEN Thrown(TRUE, "UnsupportedSyntax", UNSUPPORTED_SYNTAX)
    ELSE NoError

validateRules(rules) ==
    IF DOMAIN rules = {} THEN Thrown(TRUE, "NoRules", NO_RULES) ELSE NoError

validateOutputStyle(outputStyle) ==
    IF outputStyle # Undefined /\ outputStyle \notin {"compact", "nested"}
    THEN Thrown(TRUE, "UnsupportedOutputStyle", UNSUPPORTED_OUTPUT_STYLE)
    ELSE NoError

\* validateLintRequest with the syntax check moved before the code check.
validateLintRequest_SyntaxFirst(request) ==
    IF validateSyntax(request.syntax) # NoError
        THEN validateSyntax(request.syntax)
    ELSE IF validateCode(request.code) # NoError
        THEN validateCode(request.code)
    ELSE IF validateRules(request.config.rules) # NoError
        THEN validateRules(request.config.rules)
    ELSE validateOutputStyle(request.config.outputStyle)

\* services/lintService.ts, validateLintRequest: the four checks in source
\* order, the first throw ending the function.
validateLintRequest(request) ==
    IF validateCode(request.code) # NoError
        THEN validateCode(request.code)
    ELSE IF validateSyntax(request.syntax) # NoError
        THEN validateSyntax(request.syntax)
    ELSE IF validateRules(request.config.rules) # NoError
        THEN validateRules(request.config.rules)
    ELSE validateOutputStyle(request.config.outputStyle)

-----------------------------------------------------------------------------
(* The external collaborators: the engine (stylelint) and postcss.         *)

W1 == [line |-> 1, column |-> 7, rule |-> "color-hex-case",
       severity |-> "error", text |-> "Expected lower case"]
W2 == [line |-> 2, column |-> 1, rule |-> "indentation",
       severity |-> "warning", text |-> "Expected indentation"]

WarningLists == SeqsUpTo({W1, W2}, MaxWarnings)

\* LinterResult.code: a string, or null/undefined.
NoCode == [defined |-> FALSE, text |-> << >>]
EngineCodes == {NoCode} \cup { [defined |-> TRUE, text |-> c] : c \in SeqsUpTo(Chars, 1) }

\* The shapes a LinterResult can have where extractWarnings looks:
\*   "noResults"        results is missing
\*   "emptyResults"     results is []
\*   "firstMissing"     results[0] is null or undefined
\*   "noWarnings"       results[0] has no warnings field
\*   "warningsNotArray" results[0].warnings is a truthy value, not an array
\*   "warnings"         results[0].warnings is an array
MalformedShapes ==
    {"noResults", "emptyResults", "firstMissing", "noWarnings", "warningsNotArray"}

EngineResults ==
    { [code |-> c, shape |-> sh, warnings |-> << >>] :
        c \in EngineCodes, sh \in MalformedShapes }
    \cup
    { [code |-> c, shape |-> "warnings", warnings |-> ws] :
        c \in EngineCodes, ws \in WarningLists }

NoEngineResult == [code |-> NoCode, shape |-> "noResults", warnings |-> << >>]

\* What styleLint.lint can throw: Error objects, typed errors of this
\* service, and values that are no Error objects.
EngineThrows ==
    { Thrown(TRUE, "Error", "engine failed"),
      Thrown(TRUE, "Error", ""),
      Thrown(TRUE, "LintError", "typed lint error"),
      Thrown(TRUE, "ParseError", "typed parse error"),
      Thrown(FALSE, "value", "thrown string") }

\* What postcss.parse followed by the formatter does with a text: it
\* completes (NoError), or throws an Error or some other value.
ParseOutcomes ==
    { NoError,
      Thrown(TRUE, "CssSyntaxError", "Unclosed block"),
      Thrown(FALSE, "value", "thrown string") }

-----------------------------------------------------------------------------
(* services/lintService.ts                                                 *)

STYLELINT_VERSION == "stylelint.version"

\* A function's completion: its return value, or what it threw.
Returned(v) == [threw |-> FALSE, value |-> v, error |-> NoError]
Threw(e) == [threw |-> TRUE, value |-> << >>, error |-> e]

extractWarnings(lintResult) ==
    IF lintResult.shape \in {"noResults", "emptyResults"}
        THEN Returned(<< >>)
    ELSE IF lintResult.shape = "firstMissing"
        \* firstResult.warnings on null/undefined
        THEN Threw(Thrown(TRUE, "TypeError", "Cannot read properties of undefined"))
    ELSE IF lintResult.shape \in {"noWarnings", "warningsNotArray"}
        THEN Returned(<< >>)
    ELSE Returned(lintResult.warnings)

\* utils/formatters.ts: the tree of a text re-serialized in a style.
nestedFormatter(text) == [style |-> "nested", text |-> text]
compactFormatter(text) == [style |-> "compact", text |-> text]
\* A text returned as it is.
Verbatim(text) == [style |-> "verbatim", text |-> text]

\* !outputStyle
Falsy(v) == v \in {Undefined, Null, ""}

\* error instanceof Error ? error.message : String(error)
MessageOf(e) == e.message

\* formatOutput without the test for html.
formatOutput_StyleOnly(lintedCode, outputStyle, syntax, parse) ==
    IF Falsy(outputStyle)
        THEN Returned(Verbatim(lintedCode))
    ELSE IF parse # NoError
        THEN Threw(Thrown(TRUE, "ParseError", Prefixed(PARSE_ERROR, MessageOf(parse))))
    ELSE IF outputStyle = "nested"
        THEN Returned(nestedFormatter(lintedCode))
    ELSE Returned(compactFormatter(lintedCode))

formatOutput(lintedCode, outputStyle, syntax, parse) ==
    IF syntax = "html" \/ Falsy(outputStyle)
        THEN Returned(Verbatim(lintedCode))
    ELSE IF parse # NoError
        THEN Threw(Thrown(TRUE, "ParseError", Prefixed(PARSE_ERROR, MessageOf(parse))))
    ELSE IF outputStyle = "nested"
        THEN Returned(nestedFormatter(lintedCode))
    ELSE Returned(compactFormatter(lintedCode))

\* lintResult.code || code: an empty code falls back as well.
Coalesce_Or(resultCode, code) ==
    IF resultCode.defined /\ resultCode.text # << >> THEN resultCode.text ELSE code

\* lintResult.code ?? code
Coalesce(resultCode, code) ==
    IF resultCode.defined THEN resultCode.text ELSE code

\* The catch block without its message for Error objects.
Catch_NoMessage(error) ==
    IF error.kind = "LintError" \/ error.kind = "ParseError"
        THEN error
    ELSE Thrown(TRUE, "LintError", UNKNOWN_ERROR)

\* The catch block without the instanceof test: every caught value wrapped.
Catch_WrapAll(error) ==
    Thrown(TRUE, "LintError",
           IF error.isError THEN Prefixed(LINT_ERROR, error.message)
           ELSE UNKNOWN_ERROR)

\* The catch block of lintCode: what it throws for a caught value.
Catch(error) ==
    IF error.kind = "LintError" \/ error.kind = "ParseError"
        THEN error
    ELSE Thrown(TRUE, "LintError",
                IF error.isError THEN Prefixed(LINT_ERROR, error.message)
                ELSE UNKNOWN_ERROR)

\* The LintResult without the customSyntax of the config.
SuccessResult_NoCustomSyntax(warnings, formattedOutput, stylelintConfig) ==
    [ success |-> TRUE,
      message |-> SUCCESS,
      content |-> [ warnings |-> warnings,
                    output   |-> formattedOutput,
                    info     |-> [ version |-> STYLELINT_VERSION,
                                   config  |-> [ extends      |-> stylelintConfig.extends,
                                                 plugins      |-> stylelintConfig.plugins,
                                                 customSyntax |-> Undefined ] ] ] ]

\* The LintResult of a successful run.
SuccessResult(warnings, formattedOutput, stylelintConfig) ==
    [ success |-> TRUE,
      message |-> SUCCESS,
      content |-> [ warnings |-> warnings,
                    output   |-> formattedOutput,
                    info     |-> [ version |-> STYLELINT_VERSION,
                                   config  |-> [ extends      |-> stylelintConfig.extends,
                                                 plugins      |-> stylelintConfig.plugins,
                                                 customSyntax |-> stylelintConfig.customSyntax ] ] ] ]

NoResult == [success |-> FALSE, message |-> "", content |-> [isNull |-> TRUE]]

Pending == [status |-> "pending", error |-> NoError, result |-> NoResult]
Rejected(e) == [status |-> "rejected", error |-> e, result |-> NoResult]
Fulfilled(v) == [status |-> "fulfilled", error |-> NoError, result |-> v]

NoOptions == [code |-> << >>, config |-> createStylelintConfig(EmptyMap, "css"), set |-> FALSE]
NoResponse == [kind |-> "none", result |-> NoEngineResult, thrown |-> NoError, parse |-> NoError]
NoRequest == [code |-> << >>, syntax |-> "css",
              config |-> [rules |-> EmptyMap, outputStyle |-> Undefined]]

Reqs == {"r1"}

\* lintCode keeping the engine options in one place for all requests.
LintCodeCall_SharedOptions(r, request) ==
    /\ pc[r] = "idle"
    /\ req' = [req EXCEPT ![r] = request]
    /\ LET e == validateLintRequest(request)
           stylelintConfig ==
               createStylelintConfig(request.config.rules, request.syntax)
       IN IF e # NoError
          THEN /\ pc' = [pc EXCEPT ![r] = "done"]
               /\ raised' = [raised EXCEPT ![r] = e]
               /\ outcome' = [outcome EXCEPT ![r] = Rejected(e)]
               /\ UNCHANGED << options, engineCalls >>
          ELSE /\ pc' = [pc EXCEPT ![r] = "awaiting"]
               /\ options' = [x \in DOMAIN options |->
                      [code |-> request.code, config |-> stylelintConfig, set |-> TRUE]]
               /\ engineCalls' = [engineCalls EXCEPT ![r] = @ + 1]
               /\ UNCHANGED << raised, outcome >>
    /\ UNCHANGED response
    /\ UNCHANGED heapVars

\* lintCode(request) up to its first suspension: lines 125-147.  A throw of
\* validateLintRequest rejects the promise before anything else runs;
\* otherwise the config is built and styleLint.lint is invoked.
LintCodeCall(r, request) ==
    /\ pc[r] = "idle"
    /\ req' = [req EXCEPT ![r] = request]
    /\ LET e == validateLintRequest(request)
           stylelintConfig ==
               createStylelintConfig(request.config.rules, request.syntax)
       IN IF e # NoError
          THEN /\ pc' = [pc EXCEPT ![r] = "done"]
               /\ raised' = [raised EXCEPT ![r] = e]
               /\ outcome' = [outcome EXCEPT ![r] = Rejected(e)]
               /\ UNCHANGED << options, engineCalls >>
          ELSE /\ pc' = [pc EXCEPT ![r] = "awaiting"]
               /\ options' = [options EXCEPT ![r] =
                      [code |-> request.code, config |-> stylelintConfig, set |-> TRUE]]
               /\ engineCalls' = [engineCalls EXCEPT ![r] = @ + 1]
               /\ UNCHANGED << raised, outcome >>
    /\ UNCHANGED response
    /\ UNCHANGED heapVars

\* The awaited engine call returns lintResult: lines 147-181, and the catch
\* block for what extractWarnings or formatOutput throws.  `parse` is what
\* postcss does with the text, should formatOutput hand it one.
EngineReturn(r, lintResult, parse) ==
    /\ pc[r] = "awaiting"
    /\ LET request   == req[r]
           warnings  == extractWarnings(lintResult)
           formatted == formatOutput(Coalesce(lintResult.code, request.code),
                                     request.config.outputStyle,
                                     request.syntax, parse)
           parsed    == /\ ~warnings.threw
                        /\ request.syntax # "html"
                        /\ ~Falsy(request.config.outputStyle)
       IN /\ response' = [response EXCEPT ![r] =
                 [ kind   |-> "returned",
                   result |-> lintResult,
                   thrown |-> NoError,
                   parse  |-> IF parsed THEN parse ELSE NoError ]]
          /\ IF warnings.threw
             THEN /\ outcome' = [outcome EXCEPT ![r] = Rejected(Catch(warnings.error))]
                  /\ UNCHANGED raised
             ELSE IF formatted.threw
             THEN /\ outcome' = [outcome EXCEPT ![r] = Rejected(Catch(formatted.error))]
                  /\ raised' = [raised EXCEPT ![r] = formatted.error]
             ELSE /\ outcome' = [outcome EXCEPT ![r] =
                         Fulfilled(SuccessResult(warnings.value, formatted.value,
                                                 options[r].config))]
                  /\ UNCHANGED raised
    /\ pc' = [pc EXCEPT ![r] = "done"]
    /\ UNCHANGED << req, options, engineCalls >>
    /\ UNCHANGED heapVars

\* A catch block that invokes the engine once more before giving up.
EngineThrow_Retry(r, thrown) ==
    /\ pc[r] = "awaiting"
    /\ engineCalls[r] < 2
    /\ engineCalls' = [engineCalls EXCEPT ![r] = @ + 1]
    /\ response' = [response EXCEPT ![r] =
           [ kind |-> "threw", result |-> NoEngineResult,
             thrown |-> thrown, parse |-> NoError ]]
    /\ UNCHANGED << pc, req, options, raised, outcome >>
    /\ UNCHANGED heapVars

\* The awaited engine call throws: the catch block, lines 182-200.  The
\* engine is not invoked again.
EngineThrow(r, thrown) ==
    /\ pc[r] = "awaiting"
    /\ response' = [response EXCEPT ![r] =
           [ kind |-> "threw", result |-> NoEngineResult,
             thrown |-> thrown, parse |-> NoError ]]
    /\ outcome' = [outcome EXCEPT ![r] = Rejected(Catch(thrown))]
    /\ pc' = [pc EXCEPT ![r] = "done"]
    /\ UNCHANGED << req, options, engineCalls, raised >>
    /\ UNCHANGED heapVars

-----------------------------------------------------------------------------
(* Specifications.                                                         *)

InitHeap(A, B) ==
    /\ maps = << A, B >>
    /\ lists = << DEFAULT_EXTENDS, DEFAULT_PLUGINS >>
    /\ arrs = [a \in ArrAddrs |-> "[2]"]
    /\ configs = << >>
    /\ calls = << >>
    /\ writes = 0

InitLint ==
    /\ pc = [r \in Reqs |-> "idle"]
    /\ req = [r \in Reqs |-> NoRequest]
    /\ options = [r \in Reqs |-> NoOptions]
    /\ engineCalls = [r \in Reqs |-> 0]
    /\ response = [r \in Reqs |-> NoResponse]
    /\ raised = [r \in Reqs |-> NoError]
    /\ outcome = [r \in Reqs |-> Pending]

\* lintCode: requests arrive, the engine answers.
Init == InitHeap(EmptyMap, EmptyMap) /\ InitLint

Next ==
    \/ \E r \in Reqs, request \in Requests : LintCodeCall(r, request)
    \/ \E r \in Reqs, lintResult \in EngineResults, parse \in ParseOutcomes :
           EngineReturn(r, lintResult, parse)
    \/ \E r \in Reqs, thrown \in EngineThrows : EngineThrow(r, thrown)

Spec == Init /\ [][Next]_vars

\* createStylelintConfig: two callers, each with a rules mapping of its own,
\* call it and later write to the configs they got.
InitConfig ==
    /\ \E A \in RulesInputs, B \in SecondRulesInputs : InitHeap(A, B)
    /\ InitLint

NextConfig ==
    \/ \E a \in InputAddrs, syntax \in Syntaxes : CreateStylelintConfigCall(a, syntax)
    \/ \E c \in 1..Len(configs), k \in Keys : WriteRules(c, k)
    \/ \E c \in 1..Len(configs) : WriteExtends(c)
    \/ \E c \in 1..Len(configs) : WritePlugins(c)
    \/ \E c \in 1..Len(configs), k \in Keys : WriteRuleArray(c, k)

SpecConfig == InitConfig /\ [][NextConfig]_vars

\* Two requests in flight at once.  Each call of lintCode runs up to its
\* await without interruption, and what follows the await runs when the
\* engine call settles; the engine calls of different requests settle in
\* any order, or not at all.
ConcReqs == {"r1", "r2"}

ConcRequests ==
    { [ code   |-> c,
        syntax |-> s,
        config |-> [rules |-> (LegacyKey :> "lower"), outputStyle |-> o] ] :
        c \in {<< "a" >>, << " " >>}, s \in Syntaxes, o \in {Undefined, "compact"} }

ConcEngineResults ==
    { [code |-> c, shape |-> "warnings", warnings |-> ws] :
        c \in {NoCode, [defined |-> TRUE, text |-> << " " >>]},
        ws \in {<< >>, << W1 >>} }
    \cup
    { [code |-> c, shape |-> "firstMissing", warnings |-> << >>] :
        c \in {NoCode, [defined |-> TRUE, text |-> << " " >>]} }

ConcParseOutcomes == {NoError, Thrown(TRUE, "CssSyntaxError", "Unclosed block")}

ConcEngineThrows ==
    {Thrown(TRUE, "Error", "engine failed"), Thrown(TRUE, "ParseError", "typed parse error")}

InitConc ==
    /\ InitHeap(EmptyMap, EmptyMap)
    /\ pc = [r \in ConcReqs |-> "idle"]
    /\ req = [r \in ConcReqs |-> NoRequest]
    /\ options = [r \in ConcReqs |-> NoOptions]
    /\ engineCalls = [r \in ConcReqs |-> 0]
    /\ response = [r \in ConcReqs |-> NoResponse]
    /\ raised = [r \in ConcReqs |-> NoError]
    /\ outcome = [r \in ConcReqs |-> Pending]

NextConc ==
    \/ \E r \in ConcReqs, request \in ConcRequests : LintCodeCall(r, request)
    \/ \E r \in ConcReqs, lintResult \in ConcEngineResults, parse \in ConcParseOutcomes :
           EngineReturn(r, lintResult, parse)
    \/ \E r \in ConcReqs, thrown \in ConcEngineThrows : EngineThrow(r, thrown)

SpecConc == InitConc /\ [][NextConc]_vars

-----------------------------------------------------------------------------
(* Properties of lintCode, checked under Spec.                             *)

\* The checks of the request validator in the words of its contract.
BlankCode(code) == \A i \in 1..Len(code) : code[i] \in Whitespace

FirstFailingCheck(request) ==
    IF BlankCode(request.code) THEN "EmptyCode"
    ELSE IF request.syntax \notin {"css", "html"} THEN "UnsupportedSyntax"
    ELSE IF Cardinality(DOMAIN request.config.rules) = 0 THEN "NoRules"
    ELSE IF /\ request.config.outputStyle # Undefined
            /\ request.config.outputStyle \notin {"compact", "nested"}
         THEN "UnsupportedOutputStyle"
    ELSE "none"

MessageOfKind(kind) ==
    CASE kind = "EmptyCode"              -> EMPTY_CODE
      [] kind = "UnsupportedSyntax"      -> UNSUPPORTED_SYNTAX
      [] kind = "NoRules"                -> NO_RULES
      [] kind = "UnsupportedOutputStyle" -> UNSUPPORTED_OUTPUT_STYLE
      [] OTHER                           -> ""

\* C1: a request that fails validation is rejected with the error of the
\* first failing check in the order code, syntax, rules, outputStyle, and
\* with no other; a request that passes every check is not rejected with a
\* validation error.
C1_FirstFailingCheckReported ==
    \A r \in Reqs :
        /\ (pc[r] = "done" /\ FirstFailingCheck(req[r]) # "none") =>
              /\ outcome[r].status = "rejected"
              /\ outcome[r].error.kind = FirstFailingCheck(req[r])
              /\ outcome[r].error.message = MessageOfKind(FirstFailingCheck(req[r]))
        /\ (pc[r] # "idle" /\ FirstFailingCheck(req[r]) = "none") =>
              outcome[r].error.kind \notin ValidationKinds

\* A request with whitespace-only code and an invalid syntax and no rules
\* and an invalid output style was rejected with EmptyCode.
C1_Witness ==
    \E r \in Reqs :
        /\ pc[r] = "done"
        /\ req[r].code = << " ", " " >>
        /\ req[r].syntax = "invalid"
        /\ req[r].config.rules = EmptyMap
        /\ req[r].config.outputStyle = "invalid"
        /\ outcome[r].error.kind = "EmptyCode"

\* C2: the engine is invoked zero times for a request that fails
\* validation and exactly once for any other, after validation passed and
\* with the config built for the request; it is never invoked a second
\* time, whatever the first invocation did.
C2_EngineInvokedOnceAfterValidation ==
    \A r \in Reqs :
        /\ engineCalls[r] \in {0, 1}
        /\ pc[r] = "idle" => engineCalls[r] = 0
        /\ pc[r] # "idle" =>
              engineCalls[r] = IF FirstFailingCheck(req[r]) # "none" THEN 0 ELSE 1
        /\ engineCalls[r] = 1 =>
              /\ options[r].set
              /\ options[r].code = req[r].code
              /\ options[r].config.rules = RemapLegacy(req[r].config.rules)

\* The engine threw for a request, which ended with one invocation made.
C2_Witness ==
    \E r \in Reqs :
        /\ pc[r] = "done"
        /\ response[r].kind = "threw"
        /\ response[r].thrown.kind = "Error"
        /\ engineCalls[r] = 1

\* C3 as stated: whatever the engine throws that is no typed error, Error
\* object or not, ends the request with a LintError whose message is the
\* lint-error prefix followed by the thrown value's message.
C3_Original_EveryThrowCarriesMessage ==
    \A r \in Reqs :
        ( /\ pc[r] = "done"
          /\ response[r].kind = "threw"
          /\ response[r].thrown.kind \notin {"LintError", "ParseError"} ) =>
            /\ outcome[r].status = "rejected"
            /\ outcome[r].error.kind = "LintError"
            /\ outcome[r].error.message = Prefixed(LINT_ERROR, response[r].thrown.message)

\* C3 as amended: an Error object the engine throws that is no typed error
\* ends the request with a LintError whose message is the lint-error prefix
\* followed by the Error's message; a thrown value that is no Error object
\* ends it with a LintError whose message is the fixed unknown-error text.
C3_ThrowWrappedIntoLintError ==
    \A r \in Reqs :
        ( /\ pc[r] = "done"
          /\ response[r].kind = "threw"
          /\ response[r].thrown.kind \notin {"LintError", "ParseError"} ) =>
            /\ outcome[r].status = "rejected"
            /\ outcome[r].error.kind = "LintError"
            /\ response[r].thrown.isError =>
                  outcome[r].error.message =
                      Prefixed(LINT_ERROR, response[r].thrown.message)
            /\ ~response[r].thrown.isError =>
                  outcome[r].error.message = UNKNOWN_ERROR

\* The engine threw a value that is no Error object, and the request ended
\* with the unknown-error text.
C3_Witness ==
    \E r \in Reqs :
        /\ pc[r] = "done"
        /\ response[r].kind = "threw"
        /\ ~response[r].thrown.isError
        /\ outcome[r].error.kind = "LintError"
        /\ outcome[r].error.message = UNKNOWN_ERROR

\* C4: a validation error or a ParseError raised while a request runs is
\* what the request is rejected with, kind and message; the rejection is
\* never a LintError.
C4_TypedErrorsPropagateUnchanged ==
    \A r \in Reqs :
        raised[r] # NoError =>
            /\ raised[r].kind \in ValidationKinds \cup {"ParseError"}
            /\ pc[r] = "done"
            /\ outcome[r].status = "rejected"
            /\ outcome[r].error.kind = raised[r].kind
            /\ outcome[r].error.message = raised[r].message
            /\ outcome[r].error.kind # "LintError"

\* Re-serialization failed after the engine returned normally, and the
\* request was rejected with the ParseError.
C4_Witness ==
    \E r \in Reqs :
        /\ pc[r] = "done"
        /\ response[r].kind = "returned"
        /\ response[r].parse.isError
        /\ raised[r].kind = "ParseError"
        /\ outcome[r].error.kind = "ParseError"
        /\ outcome[r].error.message = Prefixed(PARSE_ERROR, "Unclosed block")

\* The request r ended in a LintResult.
Succeeded(r) == pc[r] = "done" /\ outcome[r].status = "fulfilled"

\* The formatter leaves the text alone for this request.
NoTransform(request) ==
    request.syntax = "html" \/ request.config.outputStyle = Undefined

\* C11: for html syntax, whatever the outputStyle, and for an absent
\* outputStyle, the output of a successful request is the fixed code as it
\* is (the engine's code where the engine result has one), nothing is
\* parsed, and the request does not end in a ParseError.
C11_NoTransformForHtmlOrNoStyle ==
    \A r \in Reqs :
        (pc[r] = "done" /\ response[r].kind = "returned" /\ NoTransform(req[r])) =>
            /\ response[r].parse = NoError
            /\ raised[r] = NoError
            /\ outcome[r].error.kind # "ParseError"
            /\ Succeeded(r) =>
                  /\ outcome[r].result.content.output.style = "verbatim"
                  /\ response[r].result.code.defined =>
                        outcome[r].result.content.output.text =
                            response[r].result.code.text
                  /\ ~response[r].result.code.defined =>
                        outcome[r].result.content.output.text = req[r].code

\* An html request with outputStyle compact succeeded with the engine's
\* code as its output.
C11_Witness ==
    \E r \in Reqs :
        /\ Succeeded(r)
        /\ req[r].syntax = "html"
        /\ req[r].config.outputStyle = "compact"
        /\ req[r].code = << "a", "a" >>
        /\ response[r].result.code = [defined |-> TRUE, text |-> << " " >>]
        /\ outcome[r].result.content.output = [style |-> "verbatim", text |-> << " " >>]

\* C12: a request that returns a LintResult returns one with success true
\* and content, whose info.config holds the extends list, plugins list and
\* customSyntax of the config built for the request and handed to the
\* engine, and whose warnings are those of the first engine result in the
\* engine's order; no other kind of LintResult is returned.
C12_ResultCarriesOwnConfigAndWarnings ==
    \A r \in Reqs :
        /\ outcome[r].status = "fulfilled" =>
              /\ pc[r] = "done"
              /\ response[r].kind = "returned"
              /\ outcome[r].result.success = TRUE
              /\ outcome[r].result.message = SUCCESS
              /\ outcome[r].result.content # [isNull |-> TRUE]
              /\ outcome[r].result.content.info.config =
                     [ extends      |-> options[r].config.extends,
                       plugins      |-> options[r].config.plugins,
                       customSyntax |-> options[r].config.customSyntax ]
              /\ outcome[r].result.content.info.config =
                     [ extends      |-> << "stylelint-config-standard",
                                           "stylelint-config-recommended-scss",
                                           "stylelint-config-recommended-vue" >>,
                       plugins      |-> << "stylelint-order",
                                           "@stylistic/stylelint-plugin" >>,
                       customSyntax |-> IF req[r].syntax = "html"
                                        THEN "postcss-html" ELSE Undefined ]
              /\ outcome[r].result.content.warnings =
                     IF response[r].result.shape = "warnings"
                     THEN response[r].result.warnings ELSE << >>
        /\ outcome[r].status # "fulfilled" => outcome[r].result = NoResult

\* An html request succeeded with the two warnings of the engine in the
\* engine's order and with customSyntax postcss-html in its info.
C12_Witness ==
    \E r \in Reqs :
        /\ Succeeded(r)
        /\ req[r].syntax = "html"
        /\ response[r].result.warnings = << W2, W1 >>
        /\ outcome[r].result.content.warnings = << W2, W1 >>
        /\ outcome[r].result.content.info.config.customSyntax = "postcss-html"

\* C16: the text handed to the formatter is the code of the engine result
\* when the result has one, the empty string included, and the code of the
\* request only when the result has none; with html syntax or no
\* outputStyle a request whose engine result has no code returns its own
\* code as output.
C16_FixedCodeOrOwnCode ==
    \A r \in Reqs :
        Succeeded(r) =>
            /\ outcome[r].result.content.output.text =
                   IF response[r].result.code.defined
                   THEN response[r].result.code.text
                   ELSE req[r].code
            /\ (response[r].result.code.defined /\ response[r].result.code.text = << >>) =>
                   outcome[r].result.content.output.text = << >>
            /\ (~response[r].result.code.defined /\ NoTransform(req[r])) =>
                   outcome[r].result.content.output =
                       [style |-> "verbatim", text |-> req[r].code]

\* An html request with outputStyle nested, whose engine result had no
\* code, returned its own code as output.
C16_Witness ==
    \E r \in Reqs :
        /\ Succeeded(r)
        /\ req[r].syntax = "html"
        /\ req[r].config.outputStyle = "nested"
        /\ req[r].code = << "a", " " >>
        /\ response[r].result.code = NoCode
        /\ outcome[r].result.content.output = [style |-> "verbatim", text |-> << "a", " " >>]

\* C14: a request whose engine call returned ends in a LintResult or in
\* the ParseError of formatOutput, whatever the engine result looks like,
\* and in nothing else.  extractWarnings throws a TypeError on a first
\* result that is null or undefined, which lintCode wraps into a LintError.
C14_ReturnedEndsInResultOrParseError ==
    \A r \in Reqs :
        (pc[r] = "done" /\ response[r].kind = "returned") =>
            \/ Succeeded(r)
            \/ /\ outcome[r].status = "rejected"
               /\ outcome[r].error.kind = "ParseError"
               /\ outcome[r].error = raised[r]

\* C15: a request whose engine result has no results list, an empty one, a
\* first result that is missing, or a first result without an array of
\* warnings, and whose output is formatted without error, succeeds with no
\* warnings.  A first result that is null or undefined makes
\* extractWarnings throw, and the request is rejected.
C15_ExtractWarningsTotal ==
    \A r \in Reqs :
        ( /\ pc[r] = "done"
          /\ response[r].kind = "returned"
          /\ response[r].result.shape \in MalformedShapes
          /\ response[r].parse = NoError ) =>
            /\ Succeeded(r)
            /\ outcome[r].result.content.warnings = << >>

-----------------------------------------------------------------------------
(* Properties of createStylelintConfig, checked under SpecConfig.          *)

Calls == 1..Len(calls)

\* The keys the output may hold for an input: the input's keys, the legacy
\* key replaced by the @stylistic one.
RemappedKeys(input) ==
    ((DOMAIN input) \ {LegacyKey})
        \cup (IF LegacyKey \in DOMAIN input THEN {StylisticKey} ELSE {})

C6_RulesDeepEqualInput ==
    \A c \in Calls : calls[c].ret.rules = calls[c].before

\* C7: after a call the caller's rules mapping has the keys and values it
\* had before the call.
C7_InputNotMutated ==
    \A c \in Calls : calls[c].after = calls[c].before

\* A call that applied the remap left the legacy key in its input.
C7_Witness ==
    \E c \in Calls :
        /\ LegacyKey \in DOMAIN calls[c].before
        /\ LegacyKey \notin DOMAIN calls[c].ret.rules
        /\ LegacyKey \in DOMAIN calls[c].after
        /\ calls[c].after = maps[calls[c].input]

\* A later write to the rules mapping, extends list or plugins list of
\* config c.
WriteTo(c) ==
    \/ \E k \in Keys : WriteRules(c, k)
    \/ WriteExtends(c)
    \/ WritePlugins(c)

C9_DefaultListsReturned ==
    \A c \in Calls :
        /\ calls[c].ret.extends =
               << "stylelint-config-standard",
                  "stylelint-config-recommended-scss",
                  "stylelint-config-recommended-vue" >>
        /\ calls[c].ret.plugins = << "stylelint-order", "@stylistic/stylelint-plugin" >>

\* Two configs were returned, for different rules and different syntaxes,
\* and a list of the first has been written to since; the second still
\* reads as it was returned.
C9_Witness ==
    /\ Len(calls) >= 2
    /\ calls[1].syntax # calls[2].syntax
    /\ calls[1].before # calls[2].before
    /\ \/ lists[configs[1].extends] # calls[1].ret.extends
       \/ lists[configs[1].plugins] # calls[1].ret.plugins
    /\ ViewConfig(2).extends = calls[2].ret.extends

\* C10: a config built for css has no customSyntax, one built for html has
\* customSyntax postcss-html.
C10_CustomSyntaxBySyntax ==
    \A c \in Calls :
        /\ calls[c].syntax = "css" => calls[c].ret.customSyntax = Undefined
        /\ calls[c].syntax = "html" => calls[c].ret.customSyntax = "postcss-html"

\* The same rules mapping was given a config for css and one for html.
C10_Witness ==
    \E c, d \in Calls :
        /\ calls[c].input = calls[d].input
        /\ calls[c].syntax = "css" /\ calls[c].ret.customSyntax = Undefined
        /\ calls[d].syntax = "html" /\ calls[d].ret.customSyntax = "postcss-html"

-----------------------------------------------------------------------------
(* Properties of concurrent requests, checked under SpecConc.              *)

\* lintCode run from call to settlement with nothing in between: the
\* settled promise as a function of the request and of what the engine call
\* did.
RunAlone(request, resp) ==
    LET e == validateLintRequest(request)
        stylelintConfig ==
            createStylelintConfig(request.config.rules, request.syntax)
        warnings  == extractWarnings(resp.result)
        formatted == formatOutput(Coalesce(resp.result.code, request.code),
                                  request.config.outputStyle,
                                  request.syntax, resp.parse)
    IN IF e # NoError THEN Rejected(e)
       ELSE IF resp.kind = "threw" THEN Rejected(Catch(resp.thrown))
       ELSE IF warnings.threw THEN Rejected(Catch(warnings.error))
       ELSE IF formatted.threw THEN Rejected(Catch(formatted.error))
       ELSE Fulfilled(SuccessResult(warnings.value, formatted.value, stylelintConfig))

\* The part of the state that belongs to request r.
OwnState(r) ==
    << pc[r], req[r], options[r], engineCalls[r], response[r], raised[r], outcome[r] >>

\* Some step of request o.
ConcStep(o) ==
    \/ \E request \in ConcRequests : LintCodeCall(o, request)
    \/ \E lintResult \in ConcEngineResults, parse \in ConcParseOutcomes :
           EngineReturn(o, lintResult, parse)
    \/ \E thrown \in ConcEngineThrows : EngineThrow(o, thrown)

\* Each request's outcome and engine options are those of its own request
\* and its own engine response, as if it ran alone.
C13_OutcomeAsAlone ==
    \A r \in ConcReqs :
        /\ outcome[r] = IF pc[r] = "done" THEN RunAlone(req[r], response[r]) ELSE Pending
        /\ options[r].set =>
               options[r] = [ code   |-> req[r].code,
                              config |-> createStylelintConfig(req[r].config.rules,
                                                               req[r].syntax),
                              set    |-> TRUE ]

\* While the engine call of r has not returned, every other unfinished
\* request has a step it can take, and that step leaves r as it is.
C13_NotBlocked ==
    \A r \in ConcReqs : \A o \in ConcReqs \ {r} :
        (pc[r] = "awaiting" /\ pc[o] # "done") =>
            ENABLED (ConcStep(o) /\ OwnState(r)' = OwnState(r))

\* A step of one request changes nothing of the others nor of the
\* module-level state.
C13_Frame ==
    \A r \in ConcReqs :
        pc'[r] # pc[r] =>
            /\ \A o \in ConcReqs \ {r} : OwnState(o)' = OwnState(o)
            /\ UNCHANGED heapVars

\* C13: concurrent requests are independent.  In every interleaving each
\* request's outcome is the one its own request and own engine response
\* give when it runs alone, a step of one request writes nothing of another
\* request or of the shared state, and a request whose engine call does not
\* return leaves every other request able to go on to completion.
C13_ConcurrentRequestsIndependent ==
    /\ [](C13_OutcomeAsAlone /\ C13_NotBlocked)
    /\ [][C13_Frame]_vars

\* Request r2 was called and completed while r1 was suspended at its engine
\* call, and r1, an html request, then succeeded with its own customSyntax
\* although r2 was a css request.
C13_Witness ==
    /\ pc["r1"] = "done" /\ pc["r2"] = "done"
    /\ req["r1"].syntax = "html" /\ req["r2"].syntax = "css"
    /\ outcome["r1"].status = "fulfilled"
    /\ outcome["r2"].status = "fulfilled"
    /\ outcome["r1"].result.content.info.config.customSyntax = "postcss-html"
    /\ outcome["r2"].result.content.info.config.customSyntax = Undefined
    /\ outcome["r1"].result.content.warnings = << W1 >>
    /\ outcome["r2"].result.content.warnings = << >>

====
